---- MODULE Spec2Model ----
(***************************************************************************)
(* Model of annotate.py: the per-essay pipeline of process_essay           *)
(* (parse_llm_response, validate_and_fix_annotation, compute_statistics)   *)
(* over character sequences, and the thread-pool run of main.              *)
(*                                                                         *)
(* A Python str is a sequence of one-character strings; a list of lines is *)
(* a sequence of such sequences.  Python indices are 0-based, so           *)
(* text[i] is text[i+1] here.  The backtick cannot be written inside a     *)
(* TLA+ string, so that one character is written as the symbol "BQ".       *)
(***************************************************************************)
EXTENDS Integers, Sequences, FiniteSets, TLC

\* process_essay on one essay.
VARIABLES essay_text, response, annotation_lines, fixed_lines, stats, pc

\* main: the essays found, the pool, one task per essay, and main's locals.
VARIABLES essay_files, workers, task, main_pc, collected, completed,
          success_count, fail_count, all_stats, per_file_stats, total_stats,
          summaries

essay_vars ==
    <<essay_text, response, annotation_lines, fixed_lines, stats, pc>>

run_vars ==
    <<essay_files, workers, task, main_pc, collected, completed,
      success_count, fail_count, all_stats, per_file_stats, total_stats,
      summaries>>

vars == <<essay_vars, run_vars>>

----------------------------------------------------------------------------
(* Bounds of the model *)

MaxDocLen == 3

MaxSpanLen == 2

MaxRespLen == 5

MaxWords == 3

MaxEssays == 3

MaxWorkers == 2

----------------------------------------------------------------------------
(* Characters and the Python str operations the code uses *)

BQ == "BQ"

TAB == "\t"

NL == "\n"

Whitespace == {" ", "\t", "\n", "\r"}

Digits == {"0", "1", "2", "3", "4", "5", "6", "7", "8", "9"}

Letters ==
    {"a", "b", "c", "d", "e", "f", "g", "h", "i", "j", "k", "l", "m",
     "n", "o", "p", "q", "r", "s", "t", "u", "v", "w", "x", "y", "z",
     "A", "B", "C", "D", "E", "F", "G", "H", "I", "J", "K", "L", "M",
     "N", "O", "P", "Q", "R", "S", "T", "U", "V", "W", "X", "Y", "Z"}

WordChars == Letters \cup Digits \cup {"_"}

SetMin(S) == CHOOSE x \in S : \A y \in S : x <= y

RECURSIVE lstrip(_)
lstrip(s) ==
    IF s # <<>> /\ Head(s) \in Whitespace THEN lstrip(Tail(s)) ELSE s

RECURSIVE rstrip(_)
rstrip(s) ==
    IF s # <<>> /\ s[Len(s)] \in Whitespace
    THEN rstrip(SubSeq(s, 1, Len(s) - 1))
    ELSE s

strip(s) == rstrip(lstrip(s))

startswith(s, prefix) ==
    Len(prefix) <= Len(s) /\ SubSeq(s, 1, Len(prefix)) = prefix

\* str.find: the lowest 0-based index where sub occurs in text, or -1.
find(text, sub) ==
    LET hits == {i \in 0..(Len(text) - Len(sub)) :
                    SubSeq(text, i + 1, i + Len(sub)) = sub}
    IN  IF hits = {} THEN -1 ELSE SetMin(hits)

\* sub in text
contains(text, sub) == find(text, sub) # -1

\* text[start:end] for non-negative start and end: the end is clipped to
\* len(text), and the slice is empty when start >= end.
slice(text, start, end) ==
    LET stop == IF end < Len(text) THEN end ELSE Len(text)
    IN  IF start < stop THEN SubSeq(text, start + 1, stop) ELSE <<>>

\* s.split('\n')
RECURSIVE split(_)
split(s) ==
    LET i == find(s, <<NL>>)
    IN  IF i = -1 THEN <<s>>
        ELSE <<SubSeq(s, 1, i)>> \o split(SubSeq(s, i + 2, Len(s)))

\* '\n'.join(lines)
RECURSIVE join(_)
join(lines) ==
    IF lines = <<>> THEN <<>>
    ELSE IF Len(lines) = 1 THEN lines[1]
    ELSE lines[1] \o <<NL>> \o join(Tail(lines))

DigitValue(c) ==
    CASE c = "0" -> 0 [] c = "1" -> 1 [] c = "2" -> 2 [] c = "3" -> 3
      [] c = "4" -> 4 [] c = "5" -> 5 [] c = "6" -> 6 [] c = "7" -> 7
      [] c = "8" -> 8 [] c = "9" -> 9

\* int(digits): the decimal value; leading zeros are accepted and lost.
RECURSIVE int(_)
int(ds) ==
    IF ds = <<>> THEN 0
    ELSE 10 * int(SubSeq(ds, 1, Len(ds) - 1)) + DigitValue(ds[Len(ds)])

DigitChar(d) == <<"0", "1", "2", "3", "4", "5", "6", "7", "8", "9">>[d + 1]

\* f"{n}" for a non-negative int: decimal digits without leading zeros.
RECURSIVE str(_)
str(n) ==
    IF n < 10 THEN <<DigitChar(n)>>
    ELSE str(n \div 10) \o <<DigitChar(n % 10)>>

----------------------------------------------------------------------------
(* The entity pattern (T\d+)\t(\w+) (\d+) (\d+)\t(.+) under re.match:      *)
(* anchored at the start, not at the end.  Each greedy run is followed by  *)
(* a character outside its class, so no backtracking can change the match. *)

\* Length of the longest run of characters of class cls from 1-based pos.
RECURSIVE run(_, _, _)
run(s, pos, cls) ==
    IF pos <= Len(s) /\ s[pos] \in cls THEN 1 + run(s, pos + 1, cls) ELSE 0

\* The run matched by .+ : every character but a newline.
RECURSIVE rundot(_, _)
rundot(s, pos) ==
    IF pos <= Len(s) /\ s[pos] # NL THEN 1 + rundot(s, pos + 1) ELSE 0

NoMatch == [matched |-> FALSE]

re_match_entity(line) ==
    LET n   == Len(line)
        d1  == run(line, 2, Digits)
        p1  == 2 + d1
        w   == run(line, p1 + 1, WordChars)
        p2  == p1 + 1 + w
        d2  == run(line, p2 + 1, Digits)
        p3  == p2 + 1 + d2
        d3  == run(line, p3 + 1, Digits)
        p4  == p3 + 1 + d3
        r   == rundot(line, p4 + 1)
    IN  IF /\ n >= 1 /\ line[1] = "T"
           /\ d1 >= 1 /\ p1 <= n /\ line[p1] = TAB
           /\ w >= 1  /\ p2 <= n /\ line[p2] = " "
           /\ d2 >= 1 /\ p3 <= n /\ line[p3] = " "
           /\ d3 >= 1 /\ p4 <= n /\ line[p4] = TAB
           /\ r >= 1
        THEN [matched     |-> TRUE,
              entity_id   |-> SubSeq(line, 1, p1 - 1),
              entity_type |-> SubSeq(line, p1 + 1, p2 - 1),
              start       |-> SubSeq(line, p2 + 1, p3 - 1),
              end         |-> SubSeq(line, p3 + 1, p4 - 1),
              span_text   |-> SubSeq(line, p4 + 1, p4 + r)]
        ELSE NoMatch

----------------------------------------------------------------------------
(* find_exact_offset and validate_and_fix_annotation *)

None == -1

\* Mutant of find_exact_offset: the last occurrence instead of the first.
find_exact_offset_last(text, span) ==
    LET hits == {i \in 0..(Len(text) - Len(span)) :
                    SubSeq(text, i + 1, i + Len(span)) = span}
    IN  IF hits = {} THEN <<None, None>>
        ELSE LET idx == CHOOSE x \in hits : \A y \in hits : y <= x
             IN  <<idx, idx + Len(span)>>

find_exact_offset(text, span) ==
    LET idx == find(text, span)
    IN  IF idx # -1 THEN <<idx, idx + Len(span)>> ELSE <<None, None>>

\* Mutant of fix_triple: the trimmed re-search keeps the untrimmed span text.
fix_triple_keep_span(text, start, end, span_text) ==
    LET actual_text ==
            IF start < Len(text) /\ end <= Len(text)
            THEN slice(text, start, end) ELSE <<>>
    IN  IF actual_text # span_text
        THEN LET new == find_exact_offset(text, span_text)
             IN  IF new[1] # None
                 THEN <<new[1], new[2], span_text>>
                 ELSE LET new2 == find_exact_offset(text, strip(span_text))
                      IN  IF new2[1] # None
                          THEN <<new2[1], new2[2], span_text>>
                          ELSE <<start, end, span_text>>
        ELSE <<start, end, span_text>>

\* Mutant of fix_triple: an unresolvable span has its offsets clamped to the
\* document.
fix_triple_clamp(text, start, end, span_text) ==
    LET actual_text ==
            IF start < Len(text) /\ end <= Len(text)
            THEN slice(text, start, end) ELSE <<>>
        clamp(n) == IF n > Len(text) THEN Len(text) ELSE n
    IN  IF actual_text # span_text
        THEN LET new == find_exact_offset(text, span_text)
             IN  IF new[1] # None
                 THEN <<new[1], new[2], span_text>>
                 ELSE LET clean_span == strip(span_text)
                          new2 == find_exact_offset(text, clean_span)
                      IN  IF new2[1] # None
                          THEN <<new2[1], new2[2], clean_span>>
                          ELSE <<clamp(start), clamp(end), span_text>>
        ELSE <<start, end, span_text>>

\* Mutant of fix_triple: no direct check, every span is searched for again.
fix_triple_always_search(text, start, end, span_text) ==
    LET new == find_exact_offset(text, span_text)
    IN  IF new[1] # None
        THEN <<new[1], new[2], span_text>>
        ELSE LET clean_span == strip(span_text)
                 new2 == find_exact_offset(text, clean_span)
             IN  IF new2[1] # None
                 THEN <<new2[1], new2[2], clean_span>>
                 ELSE <<start, end, span_text>>

\* Lines 108-122: the (start, end, span_text) triple after the repair.
fix_triple(text, start, end, span_text) ==
    LET actual_text ==
            IF start < Len(text) /\ end <= Len(text)
            THEN slice(text, start, end) ELSE <<>>
    IN  IF actual_text # span_text
        THEN LET new == find_exact_offset(text, span_text)
             IN  IF new[1] # None
                 THEN <<new[1], new[2], span_text>>
                 ELSE LET clean_span == strip(span_text)
                          new2 == find_exact_offset(text, clean_span)
                      IN  IF new2[1] # None
                          THEN <<new2[1], new2[2], clean_span>>
                          ELSE <<start, end, span_text>>
        ELSE <<start, end, span_text>>

\* Mutant of fix_line: a T-line that fails the pattern is dropped.
fix_line_drop_unmatched(text, raw) ==
    LET line == strip(raw)
    IN  IF line = <<>> THEN <<>>
        ELSE IF startswith(line, <<"T">>)
        THEN LET m == re_match_entity(line)
             IN  IF m.matched
                 THEN LET t == fix_triple(text, int(m.start), int(m.end),
                                          m.span_text)
                      IN  <<m.entity_id \o <<TAB>> \o m.entity_type \o <<" ">>
                            \o str(t[1]) \o <<" ">> \o str(t[2]) \o <<TAB>>
                            \o t[3]>>
                 ELSE <<>>
        ELSE <<line>>

\* One iteration of the loop: the lines appended to fixed_lines (none or one).
fix_line(text, raw) ==
    LET line == strip(raw)
    IN  IF line = <<>> THEN <<>>
        ELSE IF startswith(line, <<"T">>)
        THEN LET m == re_match_entity(line)
             IN  IF m.matched
                 THEN LET t == fix_triple(text, int(m.start), int(m.end),
                                          m.span_text)
                      IN  <<m.entity_id \o <<TAB>> \o m.entity_type \o <<" ">>
                            \o str(t[1]) \o <<" ">> \o str(t[2]) \o <<TAB>>
                            \o t[3]>>
                 ELSE <<line>>
        ELSE <<line>>

RECURSIVE validate_and_fix_annotation(_, _)
validate_and_fix_annotation(text, lines) ==
    IF lines = <<>> THEN <<>>
    ELSE fix_line(text, Head(lines))
            \o validate_and_fix_annotation(text, Tail(lines))

----------------------------------------------------------------------------
(* parse_llm_response *)

Fence == <<BQ, BQ, BQ>>

\* Mutant of parse_line: every non-blank line outside the fences is kept.
parse_line_keep_all(raw) ==
    LET line == strip(raw)
    IN  IF line = <<>> \/ startswith(line, Fence) THEN <<>> ELSE <<line>>

\* One iteration of the loop: the lines appended (none or one).
parse_line(raw) ==
    LET line == strip(raw)
    IN  IF line = <<>> \/ startswith(line, Fence) THEN <<>>
        ELSE IF \/ startswith(line, <<"T">>)
                \/ startswith(line, <<"A">>)
                \/ startswith(line, <<"R">>)
        THEN <<line>>
        ELSE <<>>

RECURSIVE parse_lines(_)
parse_lines(raws) ==
    IF raws = <<>> THEN <<>>
    ELSE parse_line(Head(raws)) \o parse_lines(Tail(raws))

parse_llm_response(response_text) == parse_lines(split(strip(response_text)))

----------------------------------------------------------------------------
(* compute_statistics *)

MajorClaim == <<"M", "a", "j", "o", "r", "C", "l", "a", "i", "m">>

Claim == <<"C", "l", "a", "i", "m">>

Premise == <<"P", "r", "e", "m", "i", "s", "e">>

Stance == <<"S", "t", "a", "n", "c", "e">>

For == <<"F", "o", "r">>

Against == <<"A", "g", "a", "i", "n", "s", "t">>

Stance_For == Stance \o <<"_">> \o For

Stance_Against == Stance \o <<"_">> \o Against

supports == <<"s", "u", "p", "p", "o", "r", "t", "s">>

attacks == <<"a", "t", "t", "a", "c", "k", "s">>

\* The keys of the stats dict, in the order of lines 137-143.
StatKeys ==
    <<MajorClaim, Claim, Premise, Stance_For, Stance_Against, supports,
      attacks>>

\* stats is a tuple of seven counters, one per key, in the order of StatKeys.
ZeroStats == [k \in 1..7 |-> 0]

\* The position of key in the dict, or 0 when it is not a key ("key in stats").
KeyIndex(key) ==
    IF \E k \in 1..7 : StatKeys[k] = key
    THEN CHOOSE k \in 1..7 : StatKeys[k] = key
    ELSE 0

Incr(st, k) == [st EXCEPT ![k] = @ + 1]

\* One iteration of the loop of lines 146-172.
stat_line(st, raw) ==
    LET line == strip(raw)
    IN  IF line = <<>> THEN st
        ELSE IF startswith(line, <<"T">>)
        THEN LET m == re_match_entity(line)
             IN  IF m.matched /\ KeyIndex(m.entity_type) # 0
                 THEN Incr(st, KeyIndex(m.entity_type))
                 ELSE st
        ELSE IF startswith(line, <<"A">>)
        THEN IF contains(line, Stance)
             THEN IF contains(line, For) THEN Incr(st, KeyIndex(Stance_For))
                  ELSE IF contains(line, Against)
                  THEN Incr(st, KeyIndex(Stance_Against))
                  ELSE st
             ELSE st
        ELSE IF startswith(line, <<"R">>)
        THEN IF contains(line, supports) THEN Incr(st, KeyIndex(supports))
             ELSE IF contains(line, attacks)
             THEN Incr(st, KeyIndex(attacks))
             ELSE st
        ELSE st

RECURSIVE stat_lines(_, _)
stat_lines(st, lines) ==
    IF lines = <<>> THEN st
    ELSE stat_lines(stat_line(st, Head(lines)), Tail(lines))

compute_statistics(lines) == stat_lines(ZeroStats, lines)

----------------------------------------------------------------------------
(* process_essay, lines 269-280: one essay through the three steps *)

ParseResponse ==
    /\ pc = "called"
    /\ annotation_lines' = parse_llm_response(response)
    /\ pc' = "parsed"
    /\ UNCHANGED <<essay_text, response, fixed_lines, stats, run_vars>>

ValidateAndFix ==
    /\ pc = "parsed"
    /\ fixed_lines' = validate_and_fix_annotation(essay_text, annotation_lines)
    /\ pc' = "validated"
    /\ UNCHANGED <<essay_text, response, annotation_lines, stats, run_vars>>

ComputeStatistics ==
    /\ pc = "validated"
    /\ stats' = compute_statistics(fixed_lines)
    /\ pc' = "counted"
    /\ UNCHANGED <<essay_text, response, annotation_lines, fixed_lines,
                   run_vars>>

EssayNext == ParseResponse \/ ValidateAndFix \/ ComputeStatistics

\* Lines 430-433: main's locals before the pool is entered.
MainLocalsInit ==
    /\ collected = {}
    /\ completed = 0
    /\ success_count = 0
    /\ fail_count = 0
    /\ all_stats = <<>>
    /\ per_file_stats = <<>>
    /\ total_stats = <<>>
    /\ summaries = <<>>

\* No run: the single-essay specifications leave main where it is.
NoRun ==
    /\ essay_files = 0
    /\ workers = 1
    /\ task = <<>>
    /\ main_pc = "idle"
    /\ MainLocalsInit

\* No essay in hand: the run specification leaves these where they are.
NoEssay ==
    /\ essay_text = <<>>
    /\ response = <<>>
    /\ annotation_lines = <<>>
    /\ fixed_lines = <<>>
    /\ stats = ZeroStats
    /\ pc = "idle"

\* The state after the model call returned response for essay_text.
Called(text, resp) ==
    /\ essay_text = text
    /\ response = resp
    /\ annotation_lines = <<>>
    /\ fixed_lines = <<>>
    /\ stats = ZeroStats
    /\ pc = "called"
    /\ NoRun

----------------------------------------------------------------------------
(* Inputs of the offset repair: essays and entity lines over a small       *)
(* alphabet; "b" never occurs in an essay.                                 *)

Strings(alphabet, lo, hi) == UNION {[1..n -> alphabet] : n \in lo..hi}

Essays == Strings({"a", " "}, 0, MaxDocLen)

\* Span texts over the alphabet of the essays, and span texts no essay holds.
SpanTexts ==
    Strings({"a", " "}, 1, MaxSpanLen)
        \cup {<<"b">>, <<" ", "b">>, <<"a", "b">>, <<"b", " ">>}

\* Offsets as the model writes them: in range, past the end, and one with a
\* leading zero.
OffsetTexts == {str(n) : n \in 0..(MaxDocLen + 1)} \cup {<<"0", "1">>}

EntityLine(id, type, s, e, span) ==
    <<"T">> \o id \o <<TAB>> \o type \o <<" ">> \o s \o <<" ">> \o e
        \o <<TAB>> \o span

EntityLines ==
    {EntityLine(<<"1">>, Claim, s, e, span) :
        s \in OffsetTexts, e \in OffsetTexts, span \in SpanTexts}

AttributeLine == <<"A", "1", TAB>> \o Stance \o <<" ", "T", "1", " ">> \o For

RelationLine ==
    <<"R", "1", TAB>> \o supports
        \o <<" ", "A", "r", "g", "1", ":", "T", "1", " ",
             "A", "r", "g", "2", ":", "T", "2">>

\* T-lines that fail the pattern: spaces for tabs, no digits in the id, a
\* missing span.
BrokenLines ==
    {<<"T", "1", " ">> \o Claim \o <<" ", "0", " ", "1", " ", "a">>,
     <<"T", "x", TAB>> \o Claim \o <<" ", "0", " ", "1", TAB, "a">>,
     <<"T", "1", TAB>> \o Claim \o <<" ", "0", " ", "1">>}

\* What surrounds the line under test in the response.
Contexts ==
    {[pre |-> <<>>, post |-> <<>>],
     [pre |-> <<Fence>>, post |-> <<AttributeLine, <<" ">>, Fence>>],
     [pre |-> <<EntityLine(<<"2">>, Premise, <<"0">>, <<"1">>, <<"a">>)>>,
      post |-> <<RelationLine>>]}

FixResponses ==
    {join(c.pre \o <<l>> \o c.post) :
        l \in EntityLines \cup BrokenLines \cup {AttributeLine, RelationLine},
        c \in Contexts}

InitFix == \E text \in Essays, resp \in FixResponses : Called(text, resp)

SpecFix == InitFix /\ [][EssayNext]_vars

----------------------------------------------------------------------------
(* Properties of validate_and_fix_annotation, stated on its input          *)
(* annotation_lines and its output fixed_lines once it has run.            *)

Validated == pc \in {"validated", "counted"}

\* doc[i : i+len(sub)] == sub, 0-based.
OccursAt(doc, sub, i) ==
    /\ i + Len(sub) <= Len(doc)
    /\ \A k \in 1..Len(sub) : doc[i + k] = sub[k]

Occurs(doc, sub) == \E i \in 0..Len(doc) : OccursAt(doc, sub, i)

Leftmost(doc, sub, i) ==
    /\ OccursAt(doc, sub, i)
    /\ \A j \in 0..(i - 1) : ~OccursAt(doc, sub, j)

\* The stated offsets lie in the document and select the span text.
SelectsInRange(doc, s, e, span) ==
    /\ e <= Len(doc)
    /\ e - s = Len(span)
    /\ OccursAt(doc, span, s)

\* doc[s:e] == span as Python evaluates it: an end past the document is
\* clipped to its length.
SelectsSliced(doc, s, e, span) ==
    LET stop == IF e < Len(doc) THEN e ELSE Len(doc)
    IN  /\ stop - s = Len(span)
        /\ OccursAt(doc, span, s)

\* The parsed fields of input line i and of output line i.
In(i) == re_match_entity(annotation_lines[i])

Out(i) == re_match_entity(fixed_lines[i])

SameTriple(i) ==
    /\ i \in DOMAIN fixed_lines
    /\ Out(i).matched
    /\ int(Out(i).start) = int(In(i).start)
    /\ int(Out(i).end) = int(In(i).end)
    /\ Out(i).span_text = In(i).span_text

\* Output line i is an entity whose span is sub at its leftmost occurrence.
RepairedTo(i, sub) ==
    /\ i \in DOMAIN fixed_lines
    /\ Out(i).matched
    /\ Out(i).span_text = sub
    /\ Leftmost(essay_text, sub, int(Out(i).start))
    /\ int(Out(i).end) = int(Out(i).start) + Len(sub)

C1Case(i) ==
    /\ In(i).matched
    /\ ~SelectsInRange(essay_text, int(In(i).start), int(In(i).end),
                       In(i).span_text)
    /\ Occurs(essay_text, In(i).span_text)

\* C1: an entity line whose offsets do not select its span text, and whose
\* span text occurs verbatim in the essay, comes out with the unchanged span
\* text at its leftmost occurrence: start is the smallest matching index and
\* end = start + len(span text).
C1_ReSearchLeftmost ==
    Validated =>
        \A i \in DOMAIN annotation_lines :
            C1Case(i) => RepairedTo(i, In(i).span_text)

\* A repaired entity whose span text occurs at two positions of the essay.
C1_Witness ==
    /\ Validated
    /\ \E i \in DOMAIN annotation_lines :
        /\ C1Case(i)
        /\ \E j, k \in 0..Len(essay_text) :
            /\ j < k
            /\ OccursAt(essay_text, In(i).span_text, j)
            /\ OccursAt(essay_text, In(i).span_text, k)

C2Case(i) ==
    /\ In(i).matched
    /\ strip(In(i).span_text) # In(i).span_text
    /\ ~Occurs(essay_text, In(i).span_text)
    /\ Occurs(essay_text, strip(In(i).span_text))

\* C2: an entity line whose span text carries surrounding whitespace, is
\* absent verbatim from the essay, and whose trimmed form is present, comes
\* out with the trimmed form as its text, at the leftmost occurrence of the
\* trimmed form.
C2_TrimmedFallback ==
    Validated =>
        \A i \in DOMAIN annotation_lines :
            C2Case(i) => RepairedTo(i, strip(In(i).span_text))

\* A trimmed repair in an essay that holds the trimmed form twice.
C2_Witness ==
    /\ Validated
    /\ \E i \in DOMAIN annotation_lines :
        /\ C2Case(i)
        /\ \E j, k \in 0..Len(essay_text) :
            /\ j < k
            /\ OccursAt(essay_text, strip(In(i).span_text), j)
            /\ OccursAt(essay_text, strip(In(i).span_text), k)

C3Case(i) ==
    /\ In(i).matched
    /\ ~Occurs(essay_text, In(i).span_text)
    /\ ~Occurs(essay_text, strip(In(i).span_text))

\* C3: an entity line whose span text occurs in the essay neither verbatim
\* nor trimmed keeps its (start, end, span text) triple, whatever the offsets
\* are, and the line is not dropped.
C3_IrrecoverableKept ==
    Validated =>
        /\ Len(fixed_lines) = Len(annotation_lines)
        /\ \A i \in DOMAIN annotation_lines : C3Case(i) => SameTriple(i)

\* An irrecoverable span whose offsets lie past the essay, start after end.
C3_Witness ==
    /\ Validated
    /\ \E i \in DOMAIN annotation_lines :
        /\ C3Case(i)
        /\ int(In(i).end) > Len(essay_text)
        /\ int(In(i).start) > int(In(i).end)

\* C4 as claimed: every entity line with document[start:end] == span text
\* comes out with the identical triple.
C4_AsClaimed ==
    Validated =>
        \A i \in DOMAIN annotation_lines :
            ( /\ In(i).matched
              /\ SelectsSliced(essay_text, int(In(i).start), int(In(i).end),
                               In(i).span_text) )
            => SameTriple(i)

C4Case(i) ==
    /\ In(i).matched
    /\ SelectsInRange(essay_text, int(In(i).start), int(In(i).end),
                      In(i).span_text)

\* C4 (amended): every entity line whose stated end does not exceed the
\* length of the essay and with document[start:end] == span text comes out
\* with the identical triple; it is not moved to an earlier occurrence.
C4_DirectMatchKept ==
    Validated =>
        \A i \in DOMAIN annotation_lines : C4Case(i) => SameTriple(i)

\* A direct match whose span text also occurs earlier in the essay.
C4_Witness ==
    /\ Validated
    /\ \E i \in DOMAIN annotation_lines :
        /\ C4Case(i)
        /\ \E j \in 0..(int(In(i).start) - 1) :
            OccursAt(essay_text, In(i).span_text, j)

NonBlank(lines) == SelectSeq(lines, LAMBDA l : strip(l) # <<>>)

\* C10: the output has one line per non-blank input line, in order; a line
\* that is no entity (attribute, relation, a T-line failing the pattern) is
\* output as it is; an entity keeps its id and its type token.
C10_OnlyTriplesRewritten ==
    Validated =>
        /\ Len(fixed_lines) = Len(NonBlank(annotation_lines))
        /\ Len(fixed_lines) = Len(annotation_lines)
        /\ \A i \in DOMAIN annotation_lines :
            IF In(i).matched
            THEN /\ Out(i).matched
                 /\ Out(i).entity_id = In(i).entity_id
                 /\ Out(i).entity_type = In(i).entity_type
            ELSE fixed_lines[i] = annotation_lines[i]

\* A response with a T-line that fails the pattern, a relation line, and an
\* entity line whose offsets were rewritten.
C10_Witness ==
    /\ Validated
    /\ \E i, j, k \in DOMAIN annotation_lines :
        /\ startswith(annotation_lines[i], <<"T">>) /\ ~In(i).matched
        /\ startswith(annotation_lines[j], <<"R">>)
        /\ In(k).matched /\ fixed_lines[k] # annotation_lines[k]

----------------------------------------------------------------------------
(* Inputs of the sanitizer: every short response over a small alphabet,    *)
(* and the sample of the specification.                                    *)

HereIsMyAnswer ==
    <<"H", "e", "r", "e", " ", "i", "s", " ", "m", "y", " ",
      "a", "n", "s", "w", "e", "r", ":">>

SampleResponse ==
    join(<<HereIsMyAnswer, Fence,
           EntityLine(<<"1">>, Claim, <<"0">>, <<"5">>,
                      <<"h", "e", "l", "l", "o">>),
           <<" ">> \o AttributeLine \o <<" ", "\r">>, Fence, <<>>>>)

ParseResponses ==
    Strings({"T", "R", "x", " ", NL, BQ}, 0, MaxRespLen) \cup {SampleResponse}

InitParse == \E resp \in ParseResponses : Called(<<"a">>, resp)

SpecParse == InitParse /\ [][EssayNext]_vars

Parsed == pc # "called"

\* The lines of the raw response, each trimmed.
TrimmedLines ==
    LET raws == split(response)
    IN  [i \in 1..Len(raws) |-> strip(raws[i])]

IsCandidate(line) ==
    /\ line # <<>>
    /\ ~startswith(line, Fence)
    /\ line[1] \in {"T", "A", "R"}

\* C5: parse_llm_response returns, in order, exactly the trimmed lines of the
\* raw response that are non-empty, do not begin with three backticks and
\* begin with T, A or R.
C5_SanitizerSubsequence ==
    Parsed => annotation_lines = SelectSeq(TrimmedLines, IsCandidate)

\* A response with a kept line that needed trimming and with discarded
\* lines: commentary, a fence and a blank line.
C5_Witness ==
    /\ Parsed
    /\ \E i, j, k, l \in DOMAIN TrimmedLines :
        /\ IsCandidate(TrimmedLines[i])
        /\ TrimmedLines[i] # split(response)[i]
        /\ TrimmedLines[j] = <<>>
        /\ startswith(TrimmedLines[k], Fence)
        /\ TrimmedLines[l] # <<>> /\ ~IsCandidate(TrimmedLines[l])
        /\ ~startswith(TrimmedLines[l], Fence)

----------------------------------------------------------------------------
(* Inputs of the statistics: entity lines of every type token, attribute   *)
(* and relation lines made of the keywords.                                *)

TypeTokens ==
    {MajorClaim, Claim, Premise, Stance_For, Stance_Against, supports,
     attacks, <<"O", "t", "h", "e", "r">>, <<"c", "l", "a", "i", "m">>}

TypedEntityLines ==
    {EntityLine(<<"1">>, type, <<"0">>, <<"1">>, <<"a">>) :
        type \in TypeTokens}

Arg == <<"A", "r", "g", "1", ":", "T", "1">>

RECURSIVE joinwords(_)
joinwords(ws) ==
    IF Len(ws) = 1 THEN ws[1] ELSE ws[1] \o <<" ">> \o joinwords(Tail(ws))

RelationLines ==
    {<<"R", "1", TAB>> \o joinwords(ws) :
        ws \in Strings({supports, attacks, Arg}, 1, MaxWords)}

AttributeLines ==
    {<<"A", "1", TAB>> \o joinwords(ws) :
        ws \in Strings({Stance, For, Against}, 1, 2)}

StatLines == TypedEntityLines \cup RelationLines \cup AttributeLines

\* Responses of one line and of two lines.
StatsResponses ==
    {l : l \in StatLines}
        \cup {join(<<l1, l2>>) : l1 \in StatLines, l2 \in StatLines}

InitStats == \E resp \in StatsResponses : Called(<<"a">>, resp)

SpecStats == InitStats /\ [][EssayNext]_vars

Counted == pc = "counted"

IsEntity(line) == re_match_entity(line).matched

\* The number of lines of fixed_lines that satisfy Test.
CountLines(Test(_)) == Len(SelectSeq(fixed_lines, Test))

\* C6 as claimed: an entity line counts for MajorClaim, Claim or Premise
\* when its type token is that name, and an entity line of any other type
\* token changes no counter, so that entity lines alone leave the stance and
\* relation counters at zero.
C6_AsClaimed ==
    Counted =>
        /\ \A k \in 1..3 :
            stats[k] = CountLines(LAMBDA l :
                           IsEntity(l)
                           /\ re_match_entity(l).entity_type = StatKeys[k])
        /\ (\A i \in DOMAIN fixed_lines : IsEntity(fixed_lines[i]))
            => \A k \in 4..7 : stats[k] = 0

IsRelation(line) == startswith(line, <<"R">>)

\* The keyword that occurs first when the line is read left to right.
FirstKeyword(line) ==
    LET s == find(line, supports)
        a == find(line, attacks)
    IN  IF s = -1 /\ a = -1 THEN <<>>
        ELSE IF a = -1 \/ (s # -1 /\ s < a) THEN supports
        ELSE attacks

\* C7 as claimed: each relation line counts once, for the keyword that
\* occurs first in it, so relation lines alone give supports and attacks
\* the numbers of lines whose first keyword they are.
C7_AsClaimed ==
    (Counted /\ \A i \in DOMAIN fixed_lines : IsRelation(fixed_lines[i]))
        => /\ stats[6] = CountLines(LAMBDA l : FirstKeyword(l) = supports)
           /\ stats[7] = CountLines(LAMBDA l : FirstKeyword(l) = attacks)

----------------------------------------------------------------------------
(* aggregate_statistics and main: one task per essay on a pool of workers, *)
(* the results taken as they complete.                                     *)

\* stats of a failed essay
NoStats == <<>>

\* Mutant of aggregate_statistics: each essay overwrites the totals.
aggregate_statistics_overwrite(stats_list) ==
    IF stats_list = <<>> THEN ZeroStats
    ELSE LET last == stats_list[Len(stats_list)]
         IN  IF last # <<>> THEN last ELSE ZeroStats

RECURSIVE aggregate_from(_, _)
aggregate_from(total, stats_list) ==
    IF stats_list = <<>> THEN total
    ELSE LET st == Head(stats_list)
         IN  aggregate_from(
                 IF st # <<>> THEN [k \in 1..7 |-> total[k] + st[k]]
                 ELSE total,
                 Tail(stats_list))

aggregate_statistics(stats_list) == aggregate_from(ZeroStats, stats_list)

\* Lines 274-280 of process_essay on the response of the model call.
annotate(text, resp) ==
    compute_statistics(
        validate_and_fix_annotation(text, parse_llm_response(resp)))

\* The essay every file of a run holds, and what the model may answer.
RunEssay == <<"a", " ", "a">>

RunResponses ==
    {join(<<EntityLine(<<"1">>, Claim, <<"2">>, <<"3">>, <<"a">>),
            AttributeLine>>),
     join(<<Fence, EntityLine(<<"1">>, Premise, <<"0">>, <<"1">>, <<"b">>),
            RelationLine, Fence>>)}

\* process_essay's stats for each answer.
RunStats == [resp \in RunResponses |-> annotate(RunEssay, resp)]

Pending == [pc |-> "pending", response |-> <<>>, stats |-> NoStats,
            result |-> "none"]

Running == {"reading", "calling", "annotating", "writing"}

\* Lines 404-406: no essay file, main returns.
NoEssaysFound ==
    /\ main_pc = "start"
    /\ essay_files = 0
    /\ main_pc' = "returned"
    /\ UNCHANGED <<essay_files, workers, task, collected, completed,
                   success_count, fail_count, all_stats, per_file_stats,
                   total_stats, summaries, essay_vars>>

\* Lines 436-441: every essay is submitted to the pool.
SubmitAll ==
    /\ main_pc = "start"
    /\ essay_files > 0
    /\ task' = [i \in 1..essay_files |-> Pending]
    /\ main_pc' = "collecting"
    /\ UNCHANGED <<essay_files, workers, collected, completed,
                   success_count, fail_count, all_stats, per_file_stats,
                   total_stats, summaries, essay_vars>>

TaskStep(i, new) ==
    /\ task' = [task EXCEPT ![i] = new]
    /\ UNCHANGED <<essay_files, workers, main_pc, collected, completed,
                   success_count, fail_count, all_stats, per_file_stats,
                   total_stats, summaries, essay_vars>>

Finish(i, res) == TaskStep(i, [task[i] EXCEPT !.pc = "done", !.result = res])

\* A free worker takes the oldest pending task.
StartTask(i) ==
    /\ i \in DOMAIN task
    /\ task[i].pc = "pending"
    /\ \A j \in 1..(i - 1) : task[j].pc # "pending"
    /\ Cardinality({j \in DOMAIN task : task[j].pc \in Running}) < workers
    /\ TaskStep(i, [task[i] EXCEPT !.pc = "reading"])

\* Lines 266-267: the essay is read, outside the try.
ReadEssay(i) ==
    /\ i \in DOMAIN task
    /\ task[i].pc = "reading"
    /\ TaskStep(i, [task[i] EXCEPT !.pc = "calling"])

\* The read raises: the exception leaves process_essay and is kept in the
\* future.
ReadEssayRaises(i) ==
    /\ i \in DOMAIN task
    /\ task[i].pc = "reading"
    /\ Finish(i, "raised")

\* Line 271: the model answers.
CallModel(i) ==
    /\ i \in DOMAIN task
    /\ task[i].pc = "calling"
    /\ \E resp \in RunResponses :
        TaskStep(i, [task[i] EXCEPT !.pc = "annotating", !.response = resp])

\* Lines 291-293: the model call raises, process_essay returns False.
CallModelRaises(i) ==
    /\ i \in DOMAIN task
    /\ task[i].pc = "calling"
    /\ Finish(i, "failed")

\* Lines 274-280.
Annotate(i) ==
    /\ i \in DOMAIN task
    /\ task[i].pc = "annotating"
    /\ TaskStep(i, [task[i] EXCEPT !.pc = "writing", !.response = <<>>,
                                   !.stats = RunStats[task[i].response]])

\* A parsing step raises (the answer is no str): caught at line 291.
AnnotateRaises(i) ==
    /\ i \in DOMAIN task
    /\ task[i].pc = "annotating"
    /\ TaskStep(i, [task[i] EXCEPT !.pc = "done", !.response = <<>>,
                                   !.result = "failed"])

\* Lines 283-289: the annotation file is written, process_essay returns True.
WriteOutput(i) ==
    /\ i \in DOMAIN task
    /\ task[i].pc = "writing"
    /\ Finish(i, "ok")

\* The write raises: caught at line 291, the stats are not returned.
WriteOutputRaises(i) ==
    /\ i \in DOMAIN task
    /\ task[i].pc = "writing"
    /\ TaskStep(i, [task[i] EXCEPT !.pc = "done", !.stats = NoStats,
                                   !.result = "failed"])

\* Mutant of Collect: no except around future.result(), so an exception
\* kept in the future ends main.
Collect_no_except(i) ==
    /\ main_pc = "collecting"
    /\ i \in DOMAIN task
    /\ task[i].pc = "done"
    /\ i \notin collected
    /\ collected' = collected \cup {i}
    /\ completed' = completed + 1
    /\ IF task[i].result = "ok"
       THEN /\ success_count' = success_count + 1
            /\ all_stats' = Append(all_stats, task[i].stats)
            /\ per_file_stats' = (i :> task[i].stats) @@ per_file_stats
            /\ UNCHANGED <<fail_count, main_pc>>
       ELSE IF task[i].result = "failed"
       THEN /\ fail_count' = fail_count + 1
            /\ per_file_stats' = (i :> NoStats) @@ per_file_stats
            /\ UNCHANGED <<success_count, all_stats, main_pc>>
       ELSE /\ main_pc' = "aborted"
            /\ UNCHANGED <<success_count, fail_count, all_stats,
                           per_file_stats>>
    /\ UNCHANGED <<essay_files, workers, task, total_stats, summaries,
                   essay_vars>>

\* Lines 446-462: one turn of the loop over as_completed.
Collect(i) ==
    /\ main_pc = "collecting"
    /\ i \in DOMAIN task
    /\ task[i].pc = "done"
    /\ i \notin collected
    /\ collected' = collected \cup {i}
    /\ completed' = completed + 1
    /\ IF task[i].result = "ok"
       THEN /\ success_count' = success_count + 1
            /\ all_stats' = Append(all_stats, task[i].stats)
            /\ per_file_stats' = (i :> task[i].stats) @@ per_file_stats
            /\ UNCHANGED fail_count
       ELSE /\ fail_count' = fail_count + 1
            /\ per_file_stats' = (i :> NoStats) @@ per_file_stats
            /\ UNCHANGED <<success_count, all_stats>>
    /\ UNCHANGED <<essay_files, workers, task, main_pc, total_stats,
                   summaries, essay_vars>>

\* Mutant of LeavePool: main leaves the loop without waiting for the
\* results that are still to come.
LeavePool_early ==
    /\ main_pc = "collecting"
    /\ main_pc' = "aggregate"
    /\ UNCHANGED <<essay_files, workers, task, collected, completed,
                   success_count, fail_count, all_stats, per_file_stats,
                   total_stats, summaries, essay_vars>>

\* as_completed is exhausted and the pool is left.
LeavePool ==
    /\ main_pc = "collecting"
    /\ collected = DOMAIN task
    /\ main_pc' = "aggregate"
    /\ UNCHANGED <<essay_files, workers, task, collected, completed,
                   success_count, fail_count, all_stats, per_file_stats,
                   total_stats, summaries, essay_vars>>

\* Line 469.
Aggregate ==
    /\ main_pc = "aggregate"
    /\ total_stats' = aggregate_statistics(all_stats)
    /\ main_pc' = "summary"
    /\ UNCHANGED <<essay_files, workers, task, collected, completed,
                   success_count, fail_count, all_stats, per_file_stats,
                   summaries, essay_vars>>

\* Lines 472-475: write_run_summary.
WriteRunSummary ==
    /\ main_pc = "summary"
    /\ summaries' = Append(summaries,
                           [processed  |-> success_count + fail_count,
                            successful |-> success_count,
                            failed     |-> fail_count,
                            total      |-> total_stats,
                            per_file   |-> per_file_stats])
    /\ main_pc' = "done"
    /\ UNCHANGED <<essay_files, workers, task, collected, completed,
                   success_count, fail_count, all_stats, per_file_stats,
                   total_stats, essay_vars>>

RunNext ==
    \/ NoEssaysFound
    \/ SubmitAll
    \/ \E i \in 1..essay_files :
        \/ StartTask(i)
        \/ ReadEssay(i)
        \/ ReadEssayRaises(i)
        \/ CallModel(i)
        \/ CallModelRaises(i)
        \/ Annotate(i)
        \/ AnnotateRaises(i)
        \/ WriteOutput(i)
        \/ WriteOutputRaises(i)
        \/ Collect(i)
    \/ LeavePool
    \/ Aggregate
    \/ WriteRunSummary

InitRun ==
    /\ essay_files \in 0..MaxEssays
    /\ workers \in 1..MaxWorkers
    /\ task = <<>>
    /\ main_pc = "start"
    /\ MainLocalsInit
    /\ NoEssay

SpecRun == InitRun /\ [][RunNext]_vars

\* Threads that can run do run, and a model call returns or raises.
FairSpecRun == SpecRun /\ WF_vars(RunNext)

----------------------------------------------------------------------------
(* Properties of the run *)

Succeeded == {i \in DOMAIN task : task[i].result = "ok"}

Failed == {i \in DOMAIN task : task[i].result \in {"failed", "raised"}}

\* The element-wise sum of the stats of the essays in S.
RECURSIVE SumOver(_)
SumOver(S) ==
    IF S = {} THEN ZeroStats
    ELSE LET i == CHOOSE x \in S : TRUE
             rest == SumOver(S \ {i})
         IN  [k \in 1..7 |-> task[i].stats[k] + rest[k]]

Aggregated == main_pc \in {"summary", "done"}

\* C8: whatever the order of completion and whichever essays fail, the
\* aggregate is the element-wise sum of the seven counters over the essays
\* that succeeded, and nothing else.
C8_AggregateIsSum == Aggregated => total_stats = SumOver(Succeeded)

\* A run with a failed essay and two successes of different, non-zero stats
\* collected against the order of submission.
C8_Witness ==
    /\ Aggregated
    /\ Failed # {}
    /\ \E i, j \in Succeeded :
        /\ i < j
        /\ task[i].stats # task[j].stats
        /\ task[i].stats # ZeroStats
        /\ task[j].stats # ZeroStats
        /\ all_stats = <<task[j].stats, task[i].stats>>

AfterPool == main_pc \in {"aggregate", "summary", "done"}

\* Every collected essay is counted once, as a success or as a failure.
C9_Counts ==
    /\ completed = Cardinality(collected)
    /\ success_count + fail_count = completed
    /\ success_count = Cardinality(collected \cap Succeeded)
    /\ fail_count = Cardinality(collected \cap Failed)
    /\ AfterPool =>
        /\ collected = 1..essay_files
        /\ success_count + fail_count = essay_files
        /\ fail_count = Cardinality(Failed)

\* C9: a failure of one essay (the read, the model call, a parsing step or
\* the write raising) stops neither the other essays nor the run: the counts
\* always add up to the number of completed essays, every submitted essay is
\* eventually collected, and the run reaches its end with all of them
\* counted.
C9_FailureIsolation ==
    /\ []C9_Counts
    /\ \A i \in 1..MaxEssays : (i \in DOMAIN task) ~> (i \in collected)
    /\ (main_pc = "collecting") ~> (main_pc = "done")

\* A finished run with a read that raised, a process_essay that returned
\* False, and a success.
C9_Witness ==
    /\ main_pc = "done"
    /\ \E i, j, k \in DOMAIN task :
        /\ task[i].result = "raised"
        /\ task[j].result = "failed"
        /\ task[k].result = "ok"
        /\ success_count = 1
        /\ fail_count = 2

\* The summary file holds what the one call of write_run_summary wrote.
Written == summaries # <<>>

\* What a written summary says, against the tasks and main's locals.
C11_Report ==
    /\ Len(summaries) <= 1
    /\ Written =>
        /\ essay_files > 0
        /\ main_pc = "done"
        /\ \A i \in 1..essay_files : task[i].pc = "done"
        /\ collected = 1..essay_files
        /\ summaries[1].processed = essay_files
        /\ summaries[1].successful = Cardinality(Succeeded)
        /\ summaries[1].failed = Cardinality(Failed)
        /\ summaries[1].successful = success_count
        /\ summaries[1].failed = fail_count
        /\ summaries[1].total = total_stats
        /\ summaries[1].total = SumOver(Succeeded)
        /\ DOMAIN summaries[1].per_file = 1..essay_files
    /\ essay_files = 0 => (task = <<>> /\ ~Written)

\* The summary changes in one step only: main's call of write_run_summary,
\* from an empty file, as the last step of the run.
C11_SingleWriter ==
    [][summaries' # summaries =>
          /\ summaries = <<>>
          /\ Len(summaries') = 1
          /\ main_pc = "summary"
          /\ main_pc' = "done"
          /\ task' = task]_vars

\* C11: the run summary is written at most once, by main alone, and only
\* when every essay's task has ended (with or without success) and every
\* result has been collected; its processed, successful and failed counts
\* and its aggregate are the final ones.  A run that finds no essay returns
\* without submitting a task and never writes a summary.
C11_RunReport ==
    /\ []C11_Report
    /\ C11_SingleWriter
    /\ (main_pc = "start" /\ essay_files = 0) ~> (main_pc = "returned")
    /\ [](main_pc = "returned" => (essay_files = 0 /\ task = <<>> /\ ~Written))

\* A written summary of a run on two workers with a success of non-zero
\* stats and a failure, the later essay collected before the earlier one.
C11_Witness ==
    /\ Written
    /\ workers = MaxWorkers
    /\ summaries[1].successful >= 1
    /\ summaries[1].failed >= 1
    /\ summaries[1].total # ZeroStats
    /\ \E i, j \in Succeeded :
        i < j /\ all_stats = <<task[j].stats, task[i].stats>>

====
